---- MODULE Spec2Model ----
(***************************************************************************)
(* Model of the sqlx-runner package of tnextday/pgat:                      *)
(*   - the nested transaction manager Tx (src/sqlx-runner/tx.go),          *)
(*   - the connection constructors and the interpolation safety gate      *)
(*     (src/sqlx-runner/db.go),                                            *)
(*   - Queryable.ExecMulti and splitEx (src/sqlx-runner/db.go).            *)
(* The database driver is an external collaborator: the result of every   *)
(* call made to it (ok / failed) is an input of the call.                  *)
(* A method of Tx is a sequence of steps (the call sent to the driver,    *)
(* then one step per assignment to a field), because the leak watchdog    *)
(* reads the fields without the lock and can run between any two of them. *)
(* Unsynchronised reads and writes take effect in program order.          *)
(***************************************************************************)
EXTENDS Integers, Sequences, FiniteSets, TLC

\* ------------------------------------------------------------------ bounds
\* number of Tx method calls made in one behaviour of Spec
MaxOps == 7
\* number of goroutines calling into one Tx in ConcSpec
NThreads == 2
\* number of connection opens in one behaviour of DBSpec
MaxOpens == 3
\* number of goroutines opening connections in DBSpec
NConn == 2
\* longest argument list given to ExecMulti in ExecSpec
MaxCmds == 4
\* longest text given to splitEx in SplitSpec
MaxText == 4

\* --------------------------------------------------------- tx.go constants
txPending == 0
txCommitted == 1
txRollbacked == 2
txErred == 3

VARIABLES
  \* --- Tx (tx.go:26-33) and the process-wide strict flag
  state, stateStack, IsRollbacked, Strict,
  \* the process is running (FALSE after log.Fatalf / an unrecovered panic)
  alive,
  \* the time.AfterFunc callback of WrapSqlxTx:
  \* "none", "armed", "flagread", "fired", "panicked"
  watchdog,
  \* calls issued to the underlying sqlx.Tx
  realCommits, realRollbacks,
  \* the method call in progress of the single caller of Spec and NestSpec
  inflight,
  \* --- observation of the calls made so far (history variables)
  nOps, last, prev, begins, finNested, autoNested, anyFail, shape,
  \* the real calls that have succeeded so far
  realOK,
  \* --- goroutines calling one Tx (ConcSpec)
  pc, thrOp, thrOk, snap, thrTodo, mu,
  \* --- db.go: package variable, process flag, constructors in progress
  standardConformingStrings, EnableInterpolation, dbpc, cur,
  settingQueries, settingOK, lateQueries, versionQueries, opened, nOpens,
  \* --- Queryable.ExecMulti
  cmds, emI, emPc, execLog, emRet,
  \* --- splitEx
  spText, spSep, spPc, spResult,
  \* --- a caller that nests its scopes (NestSpec)
  scopes, skipped

txVars == <<state, stateStack, IsRollbacked, Strict, alive, watchdog,
            realCommits, realRollbacks, inflight>>
monVars == <<nOps, last, prev, begins, finNested, autoNested, anyFail, shape, realOK>>
concVars == <<pc, thrOp, thrOk, snap, thrTodo, mu>>
dbVars == <<standardConformingStrings, EnableInterpolation, dbpc, cur,
            settingQueries, settingOK, lateQueries, versionQueries, opened, nOpens>>
execVars == <<cmds, emI, emPc, execLog, emRet>>
splitVars == <<spText, spSep, spPc, spResult>>
nestVars == <<scopes, skipped>>
vars == <<txVars, monVars, concVars, dbVars, execVars, splitVars, nestVars>>

Threads == 1..NThreads
Conns == 1..NConn
Ops == {"Begin", "Commit", "Rollback", "AutoCommit", "AutoRollback"}

\* ================================================================== Tx
\* The fields of a Tx that the methods read and write.
TxRec(s, st, rb) == [state |-> s, stateStack |-> st, IsRollbacked |-> rb]

SetState(t, s) == [t EXCEPT !.state = s]
SetFlag(t) == [t EXCEPT !.IsRollbacked = TRUE]

\* One step of a method: the fields after an assignment ...
Wr(t) == [tx |-> t, call |-> "none", ans |-> FALSE]
\* ... or tx.Tx.Commit() / tx.Tx.Rollback() sent to the driver, fields as
\* they are while the method waits for the answer ...
Issue(t, c) == [tx |-> t, call |-> c, ans |-> FALSE]
\* ... or the driver's answer received, no field assigned yet (the
\* Logger.Debug call that follows changes nothing).
Answer(t) == [tx |-> t, call |-> "none", ans |-> TRUE]

IssuedIn(steps) ==
  IF \E i \in 1..Len(steps) : steps[i].call # "none"
  THEN steps[CHOOSE i \in 1..Len(steps) : steps[i].call # "none"].call
  ELSE "none"

\* What one method call on Tx t does: its steps in order, the Tx it
\* leaves, the error it returns, the call it issued to the underlying
\* transaction, and whether it ended the process (log.Fatalf).
Res(t, steps, e, f) ==
  [tx |-> IF steps = <<>> THEN t ELSE steps[Len(steps)].tx,
   err |-> e, call |-> IssuedIn(steps), fatal |-> f, steps |-> steps]

pushState(t) ==
  [t EXCEPT !.stateStack = Append(t.stateStack, t.state), !.state = txPending]

popState(t) ==
  IF Len(t.stateStack) = 0 THEN t
  ELSE [t EXCEPT !.state = t.stateStack[Len(t.stateStack)],
                 !.stateStack = SubSeq(t.stateStack, 1, Len(t.stateStack) - 1)]

\* the two assignments of pushState
pushSteps(t) ==
  <<Wr([t EXCEPT !.stateStack = Append(t.stateStack, t.state)]), Wr(pushState(t))>>

\* the two assignments of popState, none on an empty stack
popSteps(t) ==
  IF Len(t.stateStack) = 0 THEN <<>>
  ELSE <<Wr([t EXCEPT !.stateStack = SubSeq(t.stateStack, 1, Len(t.stateStack) - 1)]),
         Wr(popState(t))>>

\* Begin that pushes without looking at the rollback flag.
Begin_NoCheck(t) == Res(t, pushSteps(t), "nil", FALSE)

Begin(t) ==
  IF t.IsRollbacked THEN Res(t, <<>>, "ErrTxRollbacked", FALSE)
  ELSE Res(t, pushSteps(t), "nil", FALSE)

\* Commit that sends the commit to the database at every nesting depth.
Commit_AnyDepth(t, ok) ==
  IF t.IsRollbacked THEN Res(t, <<>>, "ErrTxRollbacked", FALSE)
  ELSE IF t.state = txCommitted THEN Res(t, <<>>, "already commited", FALSE)
  ELSE IF t.state = txRollbacked THEN Res(t, <<>>, "already rollbacked", FALSE)
  ELSE IF ~ok
       THEN Res(t, <<Issue(t, "commit"), Answer(t), Wr(SetState(t, txErred))>>,
                "commit.error", FALSE)
  ELSE Res(t, <<Issue(t, "commit"), Answer(t), Wr(SetState(t, txCommitted))>>, "nil", FALSE)

\* Commit that tests the scope state before the rollback flag.
Commit_StateFirst(t, ok) ==
  IF t.state = txCommitted THEN Res(t, <<>>, "already commited", FALSE)
  ELSE IF t.IsRollbacked THEN Res(t, <<>>, "ErrTxRollbacked", FALSE)
  ELSE IF t.state = txRollbacked THEN Res(t, <<>>, "already rollbacked", FALSE)
  ELSE IF Len(t.stateStack) # 0
       THEN Res(t, <<Wr(SetState(t, txCommitted))>>, "nil", FALSE)
  ELSE IF ~ok
       THEN Res(t, <<Issue(t, "commit"), Answer(t), Wr(SetState(t, txErred))>>,
                "commit.error", FALSE)
  ELSE Res(t, <<Issue(t, "commit"), Answer(t), Wr(SetState(t, txCommitted))>>, "nil", FALSE)

Commit(t, ok) ==
  IF t.IsRollbacked THEN Res(t, <<>>, "ErrTxRollbacked", FALSE)
  ELSE IF t.state = txCommitted THEN Res(t, <<>>, "already commited", FALSE)
  ELSE IF t.state = txRollbacked THEN Res(t, <<>>, "already rollbacked", FALSE)
  ELSE IF Len(t.stateStack) # 0
       THEN Res(t, <<Wr(SetState(t, txCommitted))>>, "nil", FALSE)
  ELSE IF ~ok
       THEN Res(t, <<Issue(t, "commit"), Answer(t), Wr(SetState(t, txErred))>>,
                "commit.error", FALSE)
  ELSE Res(t, <<Issue(t, "commit"), Answer(t), Wr(SetState(t, txCommitted))>>, "nil", FALSE)

\* Rollback that reaches the database only from the outermost scope.
Rollback_OuterOnly(t, ok) ==
  IF t.IsRollbacked THEN Res(t, <<>>, "ErrTxRollbacked", FALSE)
  ELSE IF t.state = txCommitted
       THEN Res(t, <<>>, "cannot rollback, already commited", FALSE)
  ELSE IF Len(t.stateStack) > 0
       THEN Res(t, <<Wr(SetState(t, txRollbacked))>>, "nil", FALSE)
  ELSE IF ~ok
       THEN Res(t, <<Issue(t, "rollback"), Answer(t), Wr(SetState(t, txErred))>>,
                "unable to rollback", FALSE)
  ELSE Res(t, <<Issue(t, "rollback"), Answer(t), Wr(SetState(t, txRollbacked)),
                Wr(SetFlag(SetState(t, txRollbacked)))>>, "nil", FALSE)

\* Rollback that does not refuse a committed scope.
Rollback_NoCommittedCheck(t, ok) ==
  IF t.IsRollbacked THEN Res(t, <<>>, "ErrTxRollbacked", FALSE)
  ELSE IF ~ok
       THEN Res(t, <<Issue(t, "rollback"), Answer(t), Wr(SetState(t, txErred))>>,
                "unable to rollback", FALSE)
  ELSE Res(t, <<Issue(t, "rollback"), Answer(t), Wr(SetState(t, txRollbacked)),
                Wr(SetFlag(SetState(t, txRollbacked)))>>, "nil", FALSE)

Rollback(t, ok) ==
  IF t.IsRollbacked THEN Res(t, <<>>, "ErrTxRollbacked", FALSE)
  ELSE IF t.state = txCommitted
       THEN Res(t, <<>>, "cannot rollback, already commited", FALSE)
  ELSE IF ~ok
       THEN Res(t, <<Issue(t, "rollback"), Answer(t), Wr(SetState(t, txErred))>>,
                "unable to rollback", FALSE)
  ELSE Res(t, <<Issue(t, "rollback"), Answer(t), Wr(SetState(t, txRollbacked)),
                Wr(SetFlag(SetState(t, txRollbacked)))>>, "nil", FALSE)

\* AutoCommit that never looks at dat.Strict.
AutoCommit_NeverFatal(t, ok, strict) ==
  IF t.state = txRollbacked \/ t.IsRollbacked
  THEN Res(t, popSteps(t), "nil", FALSE)
  ELSE IF ~ok
       THEN Res(t, <<Issue(t, "commit"), Answer(t), Wr(SetState(t, txErred))>>
                     \o popSteps(SetState(t, txErred)),
                "AutoCommit.commit_error", FALSE)
  ELSE Res(t, <<Issue(t, "commit"), Answer(t), Wr(SetState(t, txCommitted))>>
                \o popSteps(SetState(t, txCommitted)), "nil", FALSE)

AutoCommit(t, ok, strict) ==
  IF t.state = txRollbacked \/ t.IsRollbacked
  THEN Res(t, popSteps(t), "nil", FALSE)
  ELSE IF ~ok
       THEN IF strict
            THEN Res(t, <<Issue(t, "commit"), Answer(t), Wr(SetState(t, txErred))>>,
                     "fatal", TRUE)
            ELSE Res(t, <<Issue(t, "commit"), Answer(t), Wr(SetState(t, txErred))>>
                          \o popSteps(SetState(t, txErred)),
                     "AutoCommit.commit_error", FALSE)
  ELSE Res(t, <<Issue(t, "commit"), Answer(t), Wr(SetState(t, txCommitted))>>
                \o popSteps(SetState(t, txCommitted)), "nil", FALSE)

\* the steps of a successful real rollback in AutoRollback
RolledBackSteps(t) ==
  <<Issue(t, "rollback"), Answer(t), Wr(SetState(t, txRollbacked)),
    Wr(SetFlag(SetState(t, txRollbacked)))>>
    \o popSteps(SetFlag(SetState(t, txRollbacked)))

\* the steps of a failed real rollback in AutoRollback
RollbackFailedSteps(t, strict) ==
  <<Issue(t, "rollback"), Answer(t), Wr(SetState(t, txErred))>>
    \o (IF strict THEN <<>> ELSE popSteps(SetState(t, txErred)))

\* AutoRollback whose early return forgets to pop.
AutoRollback_NoPop(t, ok, strict) ==
  IF t.IsRollbacked \/ t.state = txCommitted
  THEN Res(t, <<>>, "nil", FALSE)
  ELSE IF ~ok
       THEN Res(t, RollbackFailedSteps(t, strict),
                IF strict THEN "fatal" ELSE "AutoRollback.rollback_error", strict)
  ELSE Res(t, RolledBackSteps(t), "nil", FALSE)

\* AutoRollback that only pops when called in a nested scope.
AutoRollback_PopOnlyNested(t, ok, strict) ==
  IF t.IsRollbacked \/ t.state = txCommitted \/ Len(t.stateStack) > 0
  THEN Res(t, popSteps(t), "nil", FALSE)
  ELSE IF ~ok
       THEN Res(t, RollbackFailedSteps(t, strict),
                IF strict THEN "fatal" ELSE "AutoRollback.rollback_error", strict)
  ELSE Res(t, RolledBackSteps(t), "nil", FALSE)

\* AutoRollback that does not set the rollback flag.
AutoRollback_NoFlag(t, ok, strict) ==
  IF t.IsRollbacked \/ t.state = txCommitted
  THEN Res(t, popSteps(t), "nil", FALSE)
  ELSE IF ~ok
       THEN Res(t, RollbackFailedSteps(t, strict),
                IF strict THEN "fatal" ELSE "AutoRollback.rollback_error", strict)
  ELSE Res(t, <<Issue(t, "rollback"), Answer(t), Wr(SetState(t, txRollbacked))>>
                \o popSteps(SetState(t, txRollbacked)), "nil", FALSE)

AutoRollback(t, ok, strict) ==
  IF t.IsRollbacked \/ t.state = txCommitted
  THEN Res(t, popSteps(t), "nil", FALSE)
  ELSE IF ~ok
       THEN Res(t, RollbackFailedSteps(t, strict),
                IF strict THEN "fatal" ELSE "AutoRollback.rollback_error", strict)
  ELSE Res(t, RolledBackSteps(t), "nil", FALSE)

\* One call of method op on Tx t; ok is the driver's answer should the
\* method reach tx.Tx.Commit() / tx.Tx.Rollback().
Apply(op, t, ok, strict) ==
  CASE op = "Begin" -> Begin(t)
    [] op = "Commit" -> Commit(t, ok)
    [] op = "Rollback" -> Rollback(t, ok)
    [] op = "AutoCommit" -> AutoCommit(t, ok, strict)
    [] op = "AutoRollback" -> AutoRollback(t, ok, strict)

\* The Tx as the variables hold it.
Tx == TxRec(state, stateStack, IsRollbacked)

\* WrapSqlxTx: a new Tx; in strict mode the leak watchdog is scheduled.
WrapSqlxTx(strict) ==
  [tx |-> TxRec(txPending, <<>>, FALSE),
   watchdog |-> IF strict THEN "armed" ELSE "none"]

\* ---- observation of a call sequence
NoCall == [op |-> "none", err |-> "nil", call |-> "none", ok |-> TRUE,
           pre |-> TxRec(txPending, <<>>, FALSE),
           post |-> TxRec(txPending, <<>>, FALSE)]

\* no method call in progress
Idle == [op |-> "none", ok |-> TRUE, pre |-> TxRec(txPending, <<>>, FALSE),
         err |-> "nil", call |-> "none", fatal |-> FALSE, todo |-> <<>>]

ShapeOff == [nb |-> 0, nc |-> 0, na |-> 0, o |-> FALSE, a |-> FALSE]

\* shape.o: the calls so far are Begin^nb Commit^nc.
\* shape.a: the calls so far are Begin^nb followed by nc Commit and na
\*          AutoRollback calls, alternating, Commit first, nc <= nb + 1.
NextShape(sh, op) ==
  LET n == CASE op = "Begin" ->
                  [sh EXCEPT !.nb = sh.nb + 1,
                             !.o = sh.o /\ sh.nc = 0,
                             !.a = sh.a /\ sh.nc = 0]
             [] op = "Commit" ->
                  [sh EXCEPT !.nc = sh.nc + 1,
                             !.a = sh.a /\ sh.nc = sh.na /\ sh.nc <= sh.nb]
             [] op = "AutoRollback" ->
                  [sh EXCEPT !.na = sh.na + 1,
                             !.o = FALSE,
                             !.a = sh.a /\ sh.nc = sh.na + 1]
             [] OTHER -> ShapeOff
  IN IF n.o \/ n.a THEN n ELSE ShapeOff

NoConn == [path |-> "none", driver |-> "none", reported |-> "none",
           probed |-> FALSE, returned |-> FALSE]

TxInit ==
  /\ Strict \in BOOLEAN
  /\ state = WrapSqlxTx(Strict).tx.state
  /\ stateStack = WrapSqlxTx(Strict).tx.stateStack
  /\ IsRollbacked = WrapSqlxTx(Strict).tx.IsRollbacked
  /\ watchdog = WrapSqlxTx(Strict).watchdog
  /\ alive = TRUE
  /\ realCommits = 0
  /\ realRollbacks = 0
  /\ inflight = Idle

MonInit ==
  /\ nOps = 0
  /\ last = NoCall
  /\ prev = [op |-> "none", err |-> "nil"]
  /\ begins = 0
  /\ finNested = 0
  /\ autoNested = 0
  /\ anyFail = FALSE
  /\ shape = [nb |-> 0, nc |-> 0, na |-> 0, o |-> TRUE, a |-> TRUE]
  /\ realOK = {}

ConcIdle ==
  /\ pc = [t \in Threads |-> "idle"]
  /\ thrOp = [t \in Threads |-> "Begin"]
  /\ thrOk = [t \in Threads |-> TRUE]
  /\ snap = [t \in Threads |-> TxRec(txPending, <<>>, FALSE)]
  /\ thrTodo = [t \in Threads |-> <<>>]
  /\ mu = 0

DBIdle ==
  /\ standardConformingStrings = ""
  /\ EnableInterpolation = FALSE
  /\ dbpc = [g \in Conns |-> "idle"]
  /\ cur = [g \in Conns |-> NoConn]
  /\ settingQueries = 0
  /\ settingOK = 0
  /\ lateQueries = 0
  /\ versionQueries = 0
  /\ opened = 0
  /\ nOpens = 0

ExecIdle ==
  /\ cmds = <<>>
  /\ emI = 0
  /\ emPc = "idle"
  /\ execLog = <<>>
  /\ emRet = [n |-> 0, err |-> "none"]

SplitIdle ==
  /\ spText = <<>>
  /\ spSep = <<>>
  /\ spPc = "idle"
  /\ spResult = <<>>

NestIdle ==
  /\ scopes = <<>>
  /\ skipped = FALSE

Init == TxInit /\ MonInit /\ ConcIdle /\ DBIdle /\ ExecIdle /\ SplitIdle /\ NestIdle

\* The single caller of Spec enters method op: tx.Lock() and the tests at
\* the head of the method; ok is the answer the driver will give.
Call(op, ok) ==
  /\ alive
  /\ inflight.op = "none"
  /\ nOps < MaxOps
  /\ LET r == Apply(op, Tx, ok, Strict)
     IN inflight' = [op |-> op, ok |-> ok, pre |-> Tx, err |-> r.err,
                     call |-> r.call, fatal |-> r.fatal, todo |-> r.steps]
  /\ UNCHANGED <<state, stateStack, IsRollbacked, Strict, alive, watchdog,
                 realCommits, realRollbacks, monVars, concVars, dbVars,
                 execVars, splitVars>>

CallBegin == Call("Begin", TRUE) /\ UNCHANGED nestVars
CallCommit == \E ok \in BOOLEAN : Call("Commit", ok) /\ UNCHANGED nestVars
CallRollback == \E ok \in BOOLEAN : Call("Rollback", ok) /\ UNCHANGED nestVars
CallAutoCommit == \E ok \in BOOLEAN : Call("AutoCommit", ok) /\ UNCHANGED nestVars
CallAutoRollback == \E ok \in BOOLEAN : Call("AutoRollback", ok) /\ UNCHANGED nestVars

\* The next step of the method in progress: the call reaches the driver,
\* the driver answers, or one field is assigned.
Stage ==
  /\ alive
  /\ inflight.op # "none"
  /\ inflight.todo # <<>>
  /\ LET s == Head(inflight.todo)
     IN /\ state' = s.tx.state
        /\ stateStack' = s.tx.stateStack
        /\ IsRollbacked' = s.tx.IsRollbacked
        /\ realCommits' = realCommits + (IF s.call = "commit" THEN 1 ELSE 0)
        /\ realRollbacks' = realRollbacks + (IF s.call = "rollback" THEN 1 ELSE 0)
        /\ realOK' = IF s.ans /\ inflight.ok
                     THEN realOK \cup {inflight.call} ELSE realOK
  /\ inflight' = [inflight EXCEPT !.todo = Tail(inflight.todo)]
  /\ UNCHANGED <<Strict, alive, watchdog, nOps, last, prev, begins, finNested,
                 autoNested, anyFail, shape, concVars, dbVars, execVars,
                 splitVars, nestVars>>

\* The method in progress returns (deferred tx.Unlock()), or ends the
\* process with log.Fatalf.
ReturnCall ==
  /\ alive
  /\ inflight.op # "none"
  /\ inflight.todo = <<>>
  /\ LET op == inflight.op
         nested == Len(inflight.pre.stateStack) > 0
     IN /\ last' = [op |-> op, err |-> inflight.err, call |-> inflight.call,
                    ok |-> (inflight.call = "none" \/ inflight.ok),
                    pre |-> inflight.pre, post |-> Tx]
        /\ prev' = [op |-> last.op, err |-> last.err]
        /\ begins' = begins + (IF op = "Begin" /\ inflight.err = "nil" THEN 1 ELSE 0)
        /\ finNested' = finNested + (IF op # "Begin" /\ nested THEN 1 ELSE 0)
        /\ autoNested' = autoNested
              + (IF op \in {"AutoCommit", "AutoRollback"} /\ nested /\ ~inflight.fatal
                 THEN 1 ELSE 0)
        /\ anyFail' = (anyFail \/ (inflight.call # "none" /\ ~inflight.ok))
        /\ shape' = NextShape(shape, op)
  /\ alive' = ~inflight.fatal
  /\ nOps' = nOps + 1
  /\ inflight' = Idle
  /\ UNCHANGED <<state, stateStack, IsRollbacked, Strict, watchdog, realCommits,
                 realRollbacks, realOK, concVars, dbVars, execVars, splitVars>>

Return == ReturnCall /\ UNCHANGED nestVars

\* The function given to time.AfterFunc in WrapSqlxTx runs on its own
\* goroutine and takes no lock.  It reads newtx.IsRollbacked ...
WatchdogFire ==
  /\ alive
  /\ watchdog = "armed"
  /\ watchdog' = IF IsRollbacked THEN "fired" ELSE "flagread"
  /\ UNCHANGED <<state, stateStack, IsRollbacked, Strict, alive, realCommits,
                 realRollbacks, inflight, monVars, splitVars, nestVars,
                 concVars, dbVars, execVars>>

\* ... and, the flag having been false, newtx.state; it panics on txPending.
WatchdogReadState ==
  /\ alive
  /\ watchdog = "flagread"
  /\ IF state = txPending
     THEN watchdog' = "panicked" /\ alive' = FALSE
     ELSE watchdog' = "fired" /\ alive' = alive
  /\ UNCHANGED <<state, stateStack, IsRollbacked, Strict, realCommits,
                 realRollbacks, inflight, monVars, splitVars, nestVars,
                 concVars, dbVars, execVars>>

Next ==
  \/ CallBegin
  \/ CallCommit
  \/ CallRollback
  \/ CallAutoCommit
  \/ CallAutoRollback
  \/ Stage
  \/ Return
  \/ WatchdogFire
  \/ WatchdogReadState

Spec == Init /\ [][Next]_vars

\* ===================================================== goroutines on one Tx
\* a Lock that never waits
LockFree_Always(m) == TRUE

\* tx.Lock() returns only while no goroutine holds the embedded sync.Mutex.
LockFree(m) == m = 0

ConcInit ==
  /\ TxInit /\ MonInit /\ DBIdle /\ ExecIdle /\ SplitIdle /\ NestIdle
  /\ pc = [t \in Threads |-> "start"]
  /\ thrOp \in [Threads -> Ops]
  /\ thrOk \in [Threads -> BOOLEAN]
  /\ snap = [t \in Threads |-> TxRec(txPending, <<>>, FALSE)]
  /\ thrTodo = [t \in Threads |-> <<>>]
  /\ mu = 0

\* tx.Lock()
Lock(t) ==
  /\ alive
  /\ pc[t] = "start"
  /\ LockFree(mu)
  /\ mu' = t
  /\ pc' = [pc EXCEPT ![t] = "locked"]
  /\ UNCHANGED <<txVars, monVars, splitVars, nestVars, thrOp, thrOk, snap,
                 thrTodo, dbVars, execVars>>

\* the method body reads the fields of the Tx and takes its branch ...
Read(t) ==
  /\ alive
  /\ pc[t] = "locked"
  /\ snap' = [snap EXCEPT ![t] = Tx]
  /\ thrTodo' = [thrTodo EXCEPT ![t] = Apply(thrOp[t], Tx, thrOk[t], Strict).steps]
  /\ pc' = [pc EXCEPT ![t] = "write"]
  /\ UNCHANGED <<txVars, monVars, splitVars, nestVars, thrOp, thrOk, mu,
                 dbVars, execVars>>

\* ... calls the driver if it has to, gets its answer, and assigns the
\* fields one by one
Write(t) ==
  /\ alive
  /\ pc[t] = "write"
  /\ thrTodo[t] # <<>>
  /\ LET s == Head(thrTodo[t])
     IN /\ state' = s.tx.state
        /\ stateStack' = s.tx.stateStack
        /\ IsRollbacked' = s.tx.IsRollbacked
        /\ realCommits' = realCommits + (IF s.call = "commit" THEN 1 ELSE 0)
        /\ realRollbacks' = realRollbacks + (IF s.call = "rollback" THEN 1 ELSE 0)
  /\ thrTodo' = [thrTodo EXCEPT ![t] = Tail(thrTodo[t])]
  /\ UNCHANGED <<Strict, alive, watchdog, inflight, monVars, splitVars, nestVars,
                 pc, thrOp, thrOk, snap, mu, dbVars, execVars>>

\* the method body is over: return, or log.Fatalf
Finish(t) ==
  /\ alive
  /\ pc[t] = "write"
  /\ thrTodo[t] = <<>>
  /\ alive' = ~Apply(thrOp[t], snap[t], thrOk[t], Strict).fatal
  /\ pc' = [pc EXCEPT ![t] = "unlock"]
  /\ UNCHANGED <<state, stateStack, IsRollbacked, Strict, watchdog, realCommits,
                 realRollbacks, inflight, monVars, splitVars, nestVars,
                 thrOp, thrOk, snap, thrTodo, mu, dbVars, execVars>>

\* defer tx.Unlock()
Unlock(t) ==
  /\ alive
  /\ pc[t] = "unlock"
  /\ mu' = 0
  /\ pc' = [pc EXCEPT ![t] = "done"]
  /\ UNCHANGED <<txVars, monVars, splitVars, nestVars, thrOp, thrOk, snap,
                 thrTodo, dbVars, execVars>>

ThreadStep(t) == Lock(t) \/ Read(t) \/ Write(t) \/ Finish(t) \/ Unlock(t)

ConcNext ==
  \/ \E t \in Threads : Lock(t)
  \/ \E t \in Threads : Read(t)
  \/ \E t \in Threads : Write(t)
  \/ \E t \in Threads : Finish(t)
  \/ \E t \in Threads : Unlock(t)
  \/ WatchdogFire
  \/ WatchdogReadState

ConcSpec == ConcInit /\ [][ConcNext]_vars

\* sync.Mutex hands the lock to a waiting goroutine and the Go scheduler
\* runs every runnable goroutine.
ConcSpecFair == ConcSpec /\ \A t \in Threads : WF_vars(ThreadStep(t))

\* The calls of the goroutines made one after the other in the given order.
RECURSIVE SeqRun(_, _)
SeqRun(order, acc) ==
  IF order = <<>> \/ acc.fatal THEN acc
  ELSE LET t == Head(order)
           r == Apply(thrOp[t], acc.tx, thrOk[t], Strict)
       IN SeqRun(Tail(order),
                 [tx |-> r.tx,
                  commits |-> acc.commits + (IF r.call = "commit" THEN 1 ELSE 0),
                  rollbacks |-> acc.rollbacks + (IF r.call = "rollback" THEN 1 ELSE 0),
                  fatal |-> r.fatal])

Orders == {o \in [1..NThreads -> Threads] : \A i, j \in 1..NThreads : o[i] = o[j] => i = j}

AllDone == \A t \in Threads : pc[t] = "done"

Observed == [tx |-> Tx, commits |-> realCommits, rollbacks |-> realRollbacks,
             fatal |-> FALSE]

Linearizable ==
  (alive /\ AllDone) =>
     \E o \in Orders :
        SeqRun(o, [tx |-> WrapSqlxTx(Strict).tx, commits |-> 0,
                   rollbacks |-> 0, fatal |-> FALSE]) = Observed

InBody(t) == pc[t] \in {"locked", "write", "unlock"}

MutualExclusion == \A t, u \in Threads : (InBody(t) /\ InBody(u)) => t = u

\* C7: calls made concurrently on one Tx run one at a time under the
\* mutex, every run ends with the state, stack, flag and real calls of
\* some sequential order of the same calls, and every call that waits for
\* the lock gets it (unless the process has been terminated).
C7_CallsAreAtomic ==
  /\ [](MutualExclusion /\ Linearizable)
  /\ \A t \in Threads : (pc[t] = "start") ~> (pc[t] # "start" \/ ~alive)

C7_Witness ==
  /\ alive /\ AllDone
  /\ thrOp[1] = "Begin" /\ thrOp[2] = "Rollback"
  /\ IsRollbacked /\ stateStack = <<>> /\ realRollbacks = 1

\* ================================================================ splitEx
Chars == {"g", "x"}

\* Separator patterns: a literal of one or two characters, or c+ .
Patterns ==
  {[kind |-> "lit", s |-> <<c>>] : c \in Chars}
    \cup {[kind |-> "lit", s |-> <<c, d>>] : c \in Chars, d \in Chars}
    \cup {[kind |-> "plus", s |-> <<c>>] : c \in Chars}

RECURSIVE TextsUpTo(_)
TextsUpTo(n) ==
  IF n = 0 THEN {<<>>}
  ELSE TextsUpTo(n - 1)
         \cup {Append(q, c) : q \in {r \in TextsUpTo(n - 1) : Len(r) = n - 1}, c \in Chars}

\* end (exclusive, 0-based) of the run of character c that starts at from
RECURSIVE RunEnd(_, _, _)
RunEnd(text, c, from) ==
  IF from < Len(text) /\ text[from + 1] = c THEN RunEnd(text, c, from + 1) ELSE from

\* end of the match of reg that starts at offset from, or -1
MatchAt(text, reg, from) ==
  IF reg.kind = "lit"
  THEN IF from + Len(reg.s) <= Len(text)
          /\ SubSeq(text, from + 1, from + Len(reg.s)) = reg.s
       THEN from + Len(reg.s) ELSE -1
  ELSE IF from < Len(text) /\ text[from + 1] = reg.s[1]
       THEN RunEnd(text, reg.s[1], from) ELSE -1

\* reg.FindAllStringIndex(text, -1): the leftmost non-overlapping matches
\* as <<start, end>> pairs, searched from offset from on.
RECURSIVE FindAllStringIndex(_, _, _)
FindAllStringIndex(text, reg, from) ==
  IF from >= Len(text) THEN <<>>
  ELSE IF MatchAt(text, reg, from) >= 0
       THEN <<<<from, MatchAt(text, reg, from)>>>>
              \o FindAllStringIndex(text, reg, MatchAt(text, reg, from))
       ELSE FindAllStringIndex(text, reg, from + 1)

\* the loop of splitEx restarting each segment at the start of the match
RECURSIVE splitExLoop_FromMatchStart(_, _, _, _, _)
splitExLoop_FromMatchStart(text, indexes, i, laststart, result) ==
  IF i > Len(indexes)
  THEN Append(result, SubSeq(text, laststart + 1, Len(text)))
  ELSE splitExLoop_FromMatchStart(text, indexes, i + 1, indexes[i][1],
                   Append(result, SubSeq(text, laststart + 1, indexes[i][1])))

\* the loop of splitEx and its last assignment
RECURSIVE splitExLoop(_, _, _, _, _)
splitExLoop(text, indexes, i, laststart, result) ==
  IF i > Len(indexes)
  THEN Append(result, SubSeq(text, laststart + 1, Len(text)))
  ELSE splitExLoop(text, indexes, i + 1, indexes[i][2],
                   Append(result, SubSeq(text, laststart + 1, indexes[i][1])))

splitEx(text, reg) ==
  splitExLoop(text, FindAllStringIndex(text, reg, 0), 1, 0, <<>>)

SplitInit ==
  /\ TxInit /\ Strict = FALSE
  /\ MonInit /\ ConcIdle /\ DBIdle /\ ExecIdle /\ NestIdle
  /\ spText \in TextsUpTo(MaxText)
  /\ spSep \in Patterns
  /\ spPc = "call"
  /\ spResult = <<>>

\* statements := splitEx(script, reScriptSeparator)
CallSplitEx ==
  /\ spPc = "call"
  /\ spResult' = splitEx(spText, spSep)
  /\ spPc' = "done"
  /\ UNCHANGED <<txVars, monVars, nestVars, concVars, dbVars, execVars, spText, spSep>>

SplitNext == CallSplitEx

SplitSpec == SplitInit /\ [][SplitNext]_vars

Matches == FindAllStringIndex(spText, spSep, 0)

\* the segments put back together with the matched separators between them
RECURSIVE Rejoin(_, _, _)
Rejoin(segs, ms, k) ==
  IF k > Len(segs) THEN <<>>
  ELSE segs[k]
         \o (IF k <= Len(ms) THEN SubSeq(spText, ms[k][1] + 1, ms[k][2]) ELSE <<>>)
         \o Rejoin(segs, ms, k + 1)

\* C11: splitEx returns one segment more than there are separator matches,
\* in order; segment k is the text between match k-1 and match k (the
\* first from the start, the last to the end of the text), empty segments
\* are kept, no match gives the whole text, and the segments rejoined with
\* the matched separators are the text.
C11_SplitExSegments ==
  spPc = "done" =>
    /\ Len(spResult) = Len(Matches) + 1
    /\ \A k \in 1..Len(spResult) :
         spResult[k] = SubSeq(spText,
                              (IF k = 1 THEN 0 ELSE Matches[k - 1][2]) + 1,
                              IF k > Len(Matches) THEN Len(spText) ELSE Matches[k][1])
    /\ (Matches = <<>> => spResult = <<spText>>)
    /\ Rejoin(spResult, Matches, 1) = spText

C11_Witness ==
  /\ spPc = "done"
  /\ spText = <<"g", "x", "g", "g">> /\ spSep = [kind |-> "lit", s |-> <<"g">>]
  /\ spResult = <<<<>>, <<"x">>, <<>>, <<>>>>


\* ================================================= a caller that nests scopes
\* The caller of NestSpec opens its outermost scope with DB.Begin, every
\* inner scope with Tx.Begin, and ends every scope with an optional Commit
\* followed by AutoRollback; the driver never fails.  scopes holds, for
\* every open scope, "open" or "committed" (Commit has been called).
NestInit ==
  /\ TxInit /\ MonInit /\ ConcIdle /\ DBIdle /\ ExecIdle /\ SplitIdle
  /\ scopes = <<"open">>
  /\ skipped = FALSE

Top == scopes[Len(scopes)]

\* no method call is in progress
Quiet == inflight.op = "none"

\* tx, err := tx.Begin() inside an open scope
NestBegin ==
  /\ scopes # <<>> /\ Top = "open"
  /\ Call("Begin", TRUE)
  /\ UNCHANGED nestVars

\* tx.Commit() at the end of a scope
NestCommit ==
  /\ scopes # <<>> /\ Top = "open"
  /\ Call("Commit", TRUE)
  /\ UNCHANGED nestVars

\* the deferred tx.AutoRollback() of a scope
NestAutoRollback ==
  /\ scopes # <<>>
  /\ Call("AutoRollback", TRUE)
  /\ UNCHANGED nestVars

\* the call returns to the nesting caller
NestReturn ==
  /\ ReturnCall
  /\ scopes' = CASE inflight.op = "Begin" ->
                      IF inflight.err = "nil" THEN Append(scopes, "open") ELSE scopes
                 [] inflight.op = "Commit" ->
                      [scopes EXCEPT ![Len(scopes)] = "committed"]
                 [] OTHER -> SubSeq(scopes, 1, Len(scopes) - 1)
  /\ skipped' = (skipped \/ (inflight.op = "AutoRollback" /\ Top = "open"))

NestNext ==
  \/ NestBegin
  \/ NestCommit
  \/ NestAutoRollback
  \/ Stage
  \/ NestReturn
  \/ WatchdogFire
  \/ WatchdogReadState

NestSpec == NestInit /\ [][NestNext]_vars

\* C14: in a well-nested use without driver failure the real transaction
\* is finalized exactly once by the time the outermost scope has ended: by
\* one real commit if every scope called Commit, otherwise by one real
\* rollback, issued by the AutoRollback of the first scope that ended
\* without Commit, after which every Commit returns ErrTxRollbacked.
C14_WellNestedFinalizesOnce ==
  /\ [](scopes = <<>> => realCommits + realRollbacks = 1)
  /\ []((scopes = <<>> /\ ~skipped) => (realCommits = 1 /\ realRollbacks = 0))
  /\ []((Quiet /\ ~skipped /\ scopes # <<>> /\ scopes # <<"committed">>)
          => (realCommits = 0 /\ realRollbacks = 0))
  /\ [](skipped => (realRollbacks = 1 /\ realCommits = 0))
  /\ [][(~skipped /\ skipped')
          => (last'.op = "AutoRollback" /\ last'.call = "rollback")]_vars
  /\ []((skipped /\ last.op = "Commit") => last.err = "ErrTxRollbacked")

C14_Witness ==
  /\ scopes = <<>> /\ skipped /\ begins >= 2
  /\ realRollbacks = 1 /\ realCommits = 0
  /\ prev.op = "Commit" /\ prev.err = "ErrTxRollbacked"

\* C18: neither read of the watchdog (the rollback flag, then the state)
\* happens while a goroutine is inside a locked state transition of the Tx.
C18_WatchdogChecksUnderLock ==
  [][(watchdog \in {"armed", "flagread"} /\ watchdog' # watchdog)
       => \A t \in Threads : ~InBody(t)]_vars

\* ============================================================ Tx claims
Finalizers == {"Commit", "Rollback", "AutoCommit", "AutoRollback"}
Autos == {"AutoCommit", "AutoRollback"}

\* C1: whatever calls are made on one Tx, at most one commit or rollback is
\* issued to the underlying database transaction.
C1_AtMostOneRealFinalize == realCommits + realRollbacks <= 1

\* C2 (as stated): after n Begin calls (the DB.Begin that creates the Tx and
\* n-1 nested Tx.Begin) followed by n Commit calls, with no driver failure,
\* the real transaction has been committed exactly once, by the last Commit.
C2_CommitsAloneCommitOnce ==
  (Quiet /\ shape.o /\ ~anyFail /\ shape.nc = shape.nb + 1)
     => (realCommits = 1 /\ last.call = "commit")

\* C2 (amended): when each of the n Commit calls is followed by the
\* AutoRollback that closes its scope, no Commit before the last one
\* reaches the database, the last one issues the one real commit, and no
\* rollback is issued.
C2_PairedCommitsCommitOnce ==
  (Quiet /\ shape.a /\ ~anyFail)
     => /\ realRollbacks = 0
        /\ (shape.nc <= shape.nb => realCommits = 0)
        /\ (shape.nc = shape.nb + 1 => realCommits = 1)
        /\ (shape.nc = shape.nb + 1 /\ shape.na = shape.nb
              => last.op = "Commit" /\ last.call = "commit")

C2_Witness ==
  /\ Quiet /\ shape.a /\ ~anyFail
  /\ shape.nb >= 1 /\ shape.nc = shape.nb + 1 /\ shape.na = shape.nb + 1
  /\ realCommits = 1

\* C3: the rollback flag is never cleared, and with the flag set every
\* Begin, Commit and Rollback returns ErrTxRollbacked, issues nothing to
\* the real transaction and leaves the Tx as it was.
C3_RollbackTerminal ==
  /\ []((last.pre.IsRollbacked /\ last.op \in {"Begin", "Commit", "Rollback"})
          => (last.err = "ErrTxRollbacked" /\ last.call = "none"
              /\ last.post = last.pre))
  /\ [][IsRollbacked => IsRollbacked']_vars

C3_Witness ==
  /\ last.op = "Commit" /\ last.pre.IsRollbacked
  /\ last.pre.state = txCommitted
  /\ last.err = "ErrTxRollbacked"

\* C4 (as stated): a Rollback call on a Tx not yet rolled back issues the
\* rollback to the real transaction in that call, at any depth.
C4_RollbackAlwaysIssued ==
  (last.op = "Rollback" /\ ~last.pre.IsRollbacked) => last.call = "rollback"

\* C4 (amended): a Rollback call on a Tx not yet rolled back, whose current
\* scope is not in the committed state, issues the rollback to the real
\* transaction in that call, at any depth.
C4_RollbackIssuedUnlessCommitted ==
  (last.op = "Rollback" /\ ~last.pre.IsRollbacked /\ last.pre.state # txCommitted)
     => last.call = "rollback"

C4_Witness ==
  /\ last.op = "Rollback" /\ Len(last.pre.stateStack) >= 2
  /\ last.call = "rollback" /\ last.post.IsRollbacked

\* C5: AutoCommit or AutoRollback called right after a successful Commit or
\* Rollback returns nil, issues nothing to the real transaction, does not
\* move the state to errored and only pops the state stack.
C5_AutoAfterExplicitIsNoop ==
  (last.op \in Autos /\ prev.op \in {"Commit", "Rollback"} /\ prev.err = "nil")
     => /\ last.err = "nil"
        /\ last.call = "none"
        /\ last.post = popState(last.pre)

\* C6 (as stated): whenever no call is in progress the state-stack length
\* is the number of successful Tx.Begin calls minus the number of Commit,
\* Rollback, AutoCommit and AutoRollback calls made with a non-empty stack.
C6_DepthCountsAllFinalizers ==
  Quiet => Len(stateStack) = begins - finNested

\* C6 (amended): whenever no call is in progress the state-stack length is
\* the number of successful Tx.Begin calls minus the number of AutoCommit
\* and AutoRollback calls that returned after being made with a non-empty
\* stack (Commit and Rollback never pop); a pop on the empty stack changes
\* nothing.
C6_DepthCountsAutoFinalizers ==
  /\ Quiet => Len(stateStack) = begins - autoNested
  /\ (last.op \in Autos /\ Len(last.pre.stateStack) = 0 /\ last.err # "fatal")
        => last.post.stateStack = <<>>

C6_Witness ==
  /\ Quiet /\ last.op = "AutoRollback" /\ last.call = "none"
  /\ Len(last.pre.stateStack) = 0
  /\ begins >= 2 /\ autoNested = begins /\ finNested > autoNested

\* ======================================================= db.go: constructors
Drivers == {"postgres", "mysql"}
\* values the server can give for standard_conforming_strings
Settings == {"on", "off", ""}

\* Logger.Fatal ends the process.
LoggerFatalExits == TRUE

\* Goroutines of the process call the constructors, possibly at the same
\* time; standardConformingStrings is a package variable read and written
\* with no synchronisation.
DBInit ==
  /\ TxInit /\ Strict = FALSE
  /\ MonInit /\ ConcIdle /\ ExecIdle /\ SplitIdle /\ NestIdle
  /\ standardConformingStrings = ""
  /\ EnableInterpolation \in BOOLEAN
  /\ dbpc = [g \in Conns |-> "idle"]
  /\ cur = [g \in Conns |-> NoConn]
  /\ settingQueries = 0
  /\ settingOK = 0
  /\ lateQueries = 0
  /\ versionQueries = 0
  /\ opened = 0
  /\ nOpens = 0

Enter(g, path, driver, to) ==
  /\ dbpc' = [dbpc EXCEPT ![g] = to]
  /\ cur' = [cur EXCEPT ![g] = [NoConn EXCEPT !.path = path, !.driver = driver]]
  /\ nOpens' = nOpens + 1

\* NewDB up to the call of the gate.
NewDB(g, driverName) ==
  /\ alive /\ dbpc[g] = "idle" /\ nOpens < MaxOpens
  /\ IF driverName = "postgres"
     THEN Enter(g, "NewDB", driverName, "gate")
     ELSE Enter(g, "NewDB", driverName, "idle")   \* panic("Unsupported driver: ...")
  /\ UNCHANGED <<lateQueries, txVars, monVars, splitVars, nestVars, concVars, execVars,
                 standardConformingStrings, EnableInterpolation, settingQueries,
                 settingOK, versionQueries, opened>>

\* NewDBFromString: sql.Open, then db.Ping() is sent.
NewDBFromString(g, driver, openOk) ==
  /\ alive /\ dbpc[g] = "idle" /\ nOpens < MaxOpens
  /\ IF ~openOk /\ LoggerFatalExits
     THEN /\ Enter(g, "NewDBFromString", driver, "connect")
          /\ alive' = FALSE
     ELSE /\ Enter(g, "NewDBFromString", driver, "ping")
          /\ alive' = alive
  /\ UNCHANGED <<lateQueries, state, stateStack, IsRollbacked, Strict, watchdog, realCommits,
                 realRollbacks, inflight, monVars, splitVars, nestVars, concVars,
                 execVars, standardConformingStrings, EnableInterpolation,
                 settingQueries, settingOK, versionQueries, opened>>

\* db.Ping() returns; then NewDB(db, driver) up to the call of the gate.
Ping(g, pingOk) ==
  /\ alive /\ dbpc[g] = "ping"
  /\ IF ~pingOk /\ LoggerFatalExits
     THEN alive' = FALSE /\ dbpc' = dbpc
     ELSE /\ alive' = alive
          /\ dbpc' = [dbpc EXCEPT ![g] =
                        IF cur[g].driver = "postgres" THEN "gate" ELSE "idle"]
  /\ UNCHANGED <<lateQueries, state, stateStack, IsRollbacked, Strict, watchdog, realCommits,
                 realRollbacks, inflight, monVars, splitVars, nestVars, concVars,
                 execVars, standardConformingStrings, EnableInterpolation, cur,
                 settingQueries, settingOK, versionQueries, opened, nOpens>>

\* NewDBFromSqlx up to the call of the gate.
NewDBFromSqlx(g) ==
  /\ alive /\ dbpc[g] = "idle" /\ nOpens < MaxOpens
  /\ Enter(g, "NewDBFromSqlx", "postgres", "gate")
  /\ UNCHANGED <<lateQueries, txVars, monVars, splitVars, nestVars, concVars, execVars,
                 standardConformingStrings, EnableInterpolation, settingQueries,
                 settingOK, versionQueries, opened>>

\* pgMustNotAllowEscapeSequence, the two tests at its head: interpolation
\* off returns at once; an empty package variable leads to the query.
GateRead(g) ==
  /\ alive /\ dbpc[g] = "gate"
  /\ dbpc' = [dbpc EXCEPT ![g] =
                IF ~EnableInterpolation THEN "version"
                ELSE IF standardConformingStrings = "" THEN "query"
                ELSE "test"]
  /\ UNCHANGED <<lateQueries, txVars, monVars, splitVars, nestVars, concVars, execVars,
                 standardConformingStrings, EnableInterpolation, cur,
                 settingQueries, settingOK, versionQueries, opened, nOpens>>

\* the setting query is sent to the server
GateSend(g) ==
  /\ alive /\ dbpc[g] = "query"
  /\ settingQueries' = settingQueries + 1
  /\ lateQueries' = lateQueries + (IF standardConformingStrings = "on" THEN 1 ELSE 0)
  /\ dbpc' = [dbpc EXCEPT ![g] = "store"]
  /\ UNCHANGED <<txVars, monVars, splitVars, nestVars, concVars, execVars,
                 standardConformingStrings, EnableInterpolation, cur,
                 settingOK, versionQueries, opened, nOpens>>

\* QueryScalar(&standardConformingStrings) returns: the value srv of the
\* server is stored in the package variable, or the error is raised by
\* panic(err).
GateStore(g, srv, qok) ==
  /\ alive /\ dbpc[g] = "store"
  /\ IF qok
     THEN /\ standardConformingStrings' = srv
          /\ settingOK' = settingOK + 1
          /\ cur' = [cur EXCEPT ![g].reported = srv]
          /\ dbpc' = [dbpc EXCEPT ![g] = "test"]
     ELSE /\ dbpc' = [dbpc EXCEPT ![g] = "idle"]
          /\ UNCHANGED <<standardConformingStrings, settingOK, cur>>
  /\ UNCHANGED <<lateQueries, txVars, monVars, splitVars, nestVars, concVars, execVars,
                 EnableInterpolation, settingQueries, versionQueries, opened,
                 nOpens>>

\* the test of the package variable against "on"; log.Fatalf otherwise
GateTest(g) ==
  /\ alive /\ dbpc[g] = "test"
  /\ IF standardConformingStrings # "on"
     THEN alive' = FALSE /\ dbpc' = dbpc
     ELSE alive' = alive /\ dbpc' = [dbpc EXCEPT ![g] = "version"]
  /\ UNCHANGED <<lateQueries, state, stateStack, IsRollbacked, Strict, watchdog, realCommits,
                 realRollbacks, inflight, monVars, splitVars, nestVars, concVars,
                 execVars, standardConformingStrings, EnableInterpolation, cur,
                 settingQueries, settingOK, versionQueries, opened, nOpens>>

\* pgMustSetVersion(conn): SHOW server_version_num is sent to the server
pgMustSetVersion(g) ==
  /\ alive /\ dbpc[g] = "version"
  /\ versionQueries' = versionQueries + 1
  /\ cur' = [cur EXCEPT ![g].probed = TRUE]
  /\ dbpc' = [dbpc EXCEPT ![g] = "versionwait"]
  /\ UNCHANGED <<lateQueries, txVars, monVars, splitVars, nestVars, concVars, execVars,
                 standardConformingStrings, EnableInterpolation,
                 settingQueries, settingOK, opened, nOpens>>

\* QueryScalar(&db.Version) returns: the version, or Logger.Fatal
VersionAnswer(g, qok) ==
  /\ alive /\ dbpc[g] = "versionwait"
  /\ IF ~qok /\ LoggerFatalExits
     THEN alive' = FALSE /\ dbpc' = dbpc
     ELSE alive' = alive /\ dbpc' = [dbpc EXCEPT ![g] = "return"]
  /\ UNCHANGED <<lateQueries, state, stateStack, IsRollbacked, Strict, watchdog, realCommits,
                 realRollbacks, inflight, monVars, splitVars, nestVars, concVars,
                 execVars, standardConformingStrings, EnableInterpolation, cur,
                 settingQueries, settingOK, versionQueries, opened, nOpens>>

\* return conn
ReturnConn(g) ==
  /\ alive /\ dbpc[g] = "return"
  /\ opened' = opened + 1
  /\ cur' = [cur EXCEPT ![g].returned = TRUE]
  /\ dbpc' = [dbpc EXCEPT ![g] = "idle"]
  /\ UNCHANGED <<lateQueries, txVars, monVars, splitVars, nestVars, concVars, execVars,
                 standardConformingStrings, EnableInterpolation, settingQueries,
                 settingOK, versionQueries, nOpens>>

\* the application assigns dat.EnableInterpolation while no constructor runs
SetEnableInterpolation ==
  /\ alive /\ nOpens < MaxOpens
  /\ \A g \in Conns : dbpc[g] = "idle"
  /\ EnableInterpolation' = ~EnableInterpolation
  /\ UNCHANGED <<lateQueries, txVars, monVars, splitVars, nestVars, concVars, execVars,
                 standardConformingStrings, dbpc, cur, settingQueries, settingOK,
                 versionQueries, opened, nOpens>>

DBNext ==
  \/ \E g \in Conns, d \in Drivers : NewDB(g, d)
  \/ \E g \in Conns, d \in Drivers, o \in BOOLEAN : NewDBFromString(g, d, o)
  \/ \E g \in Conns, p \in BOOLEAN : Ping(g, p)
  \/ \E g \in Conns : NewDBFromSqlx(g)
  \/ \E g \in Conns : GateRead(g)
  \/ \E g \in Conns : GateSend(g)
  \/ \E g \in Conns, srv \in Settings, qok \in BOOLEAN : GateStore(g, srv, qok)
  \/ \E g \in Conns : GateTest(g)
  \/ \E g \in Conns : pgMustSetVersion(g)
  \/ \E g \in Conns, qok \in BOOLEAN : VersionAnswer(g, qok)
  \/ \E g \in Conns : ReturnConn(g)
  \/ SetEnableInterpolation

DBSpec == DBInit /\ [][DBNext]_vars

\* C8: with interpolation enabled, when the server reports a value other
\* than "on" to an open, that open ends the process at the test of the
\* gate: it runs no version probe and returns no DB.
C8_UnsafeSettingIsFatal ==
  \A g \in Conns :
    (cur[g].reported \notin {"none", "on"})
       => /\ dbpc[g] = "test"
          /\ ~cur[g].probed /\ ~cur[g].returned

\* C9: at most one setting query succeeds in a process, and once "on" is
\* cached no open sends the setting query again.
C9_SettingQueriedOnce ==
  /\ settingOK <= 1
  /\ lateQueries = 0
\* ================================================== Queryable.ExecMulti
Outcomes == {"nil", "e1", "e2"}

RECURSIVE SeqsUpTo(_)
SeqsUpTo(n) ==
  IF n = 0 THEN {<<>>}
  ELSE SeqsUpTo(n - 1) \cup {Append(q, x) : q \in {r \in SeqsUpTo(n - 1) : Len(r) = n - 1}, x \in Outcomes}

ExecInit ==
  /\ TxInit /\ Strict = FALSE
  /\ MonInit /\ ConcIdle /\ DBIdle /\ SplitIdle /\ NestIdle
  /\ cmds \in SeqsUpTo(MaxCmds)
  /\ emI = 0
  /\ emPc = "loop"
  /\ execLog = <<>>
  /\ emRet = [n |-> 0, err |-> "none"]

\* ExecMulti answering with the number of statements executed.
ExecMultiFails_Count(i, err) == [n |-> i + 1, err |-> err]

\* return i, err
ExecMultiFails(i, err) == [n |-> i, err |-> err]

\* one iteration of the loop: q.runner.Exec(cmd.SQL, cmd.Args...)
ExecMultiStep ==
  /\ emPc = "loop" /\ emI < Len(cmds)
  /\ execLog' = Append(execLog, emI)
  /\ IF cmds[emI + 1] # "nil"
     THEN /\ emRet' = ExecMultiFails(emI, cmds[emI + 1])
          /\ emPc' = "done"
          /\ emI' = emI
     ELSE /\ emI' = emI + 1
          /\ UNCHANGED <<emRet, emPc>>
  /\ UNCHANGED <<txVars, monVars, splitVars, nestVars, concVars, dbVars, cmds>>

\* return len(commands), nil
ExecMultiReturn ==
  /\ emPc = "loop" /\ emI = Len(cmds)
  /\ emRet' = [n |-> Len(cmds), err |-> "nil"]
  /\ emPc' = "done"
  /\ UNCHANGED <<txVars, monVars, splitVars, nestVars, concVars, dbVars, cmds, emI, execLog>>

ExecNext == ExecMultiStep \/ ExecMultiReturn

ExecSpec == ExecInit /\ [][ExecNext]_vars

Failing == {i \in 0..(Len(cmds) - 1) : cmds[i + 1] # "nil"}
FirstFailing == CHOOSE i \in Failing : \A j \in Failing : i <= j

\* C10: ExecMulti runs its statements in argument order and stops at the
\* first failure: it returns that statement's index and error, every
\* earlier statement has run once and no later one has run; with no
\* failure it returns the number of statements and nil, each run once.
C10_ExecMultiStopsAtFirstFailure ==
  /\ \A k \in 1..Len(execLog) : execLog[k] = k - 1
  /\ emPc = "done" =>
       IF Failing # {}
       THEN /\ emRet = [n |-> FirstFailing, err |-> cmds[FirstFailing + 1]]
            /\ Len(execLog) = FirstFailing + 1
       ELSE /\ emRet = [n |-> Len(cmds), err |-> "nil"]
            /\ Len(execLog) = Len(cmds)

C10_Witness ==
  /\ emPc = "done" /\ Len(cmds) = 3
  /\ cmds[1] = "nil" /\ cmds[2] = "e1"
  /\ emRet = [n |-> 1, err |-> "e1"] /\ execLog = <<0, 1>>

\* the driver call made by the last method call failed
DriverFailed == last.call # "none" /\ ~last.ok

\* C12 (as stated): in strict mode a failed real commit or rollback inside
\* Commit, Rollback, AutoCommit or AutoRollback ends the process; outside
\* strict mode the failure is returned to the caller.
C12_StrictFailureAlwaysFatal ==
  DriverFailed =>
    /\ Strict => last.err = "fatal"
    /\ ~Strict => last.err \notin {"nil", "fatal"}

\* C12 (amended): in strict mode a failed real commit or rollback inside
\* AutoCommit or AutoRollback ends the process; inside Commit or Rollback
\* it is returned to the caller in both modes, and outside strict mode
\* every such failure is returned to the caller.
C12_StrictFailureFatalInAuto ==
  DriverFailed =>
    IF Strict /\ last.op \in Autos
    THEN last.err = "fatal" /\ ~alive
    ELSE last.err \notin {"nil", "fatal"}

C12_Witness ==
  /\ Strict /\ DriverFailed /\ last.op = "AutoRollback"
  /\ last.err = "fatal" /\ ~alive /\ state = txErred

\* C13: Commit, AutoCommit and AutoRollback called with a non-empty state
\* stack pop the stack, restore the caller's state and issue nothing to
\* the real transaction; a real commit is issued only by a call made with
\* an empty state stack.
C13_NestedFinalizeOnlyPops ==
  /\ (last.op \in {"Commit", "AutoCommit", "AutoRollback"}
        /\ Len(last.pre.stateStack) > 0)
       => /\ last.call = "none"
          /\ last.post = [popState(last.pre)
                            EXCEPT !.IsRollbacked = last.post.IsRollbacked]
  /\ last.call = "commit" => Len(last.pre.stateStack) = 0

\* C15: with the stack left as it is (no Begin, no pop), a Commit,
\* Rollback, AutoCommit or AutoRollback call on a scope whose state is
\* committed, rolledback or errored leaves that state, and on an errored
\* scope it issues no real commit or rollback.
C15_ScopeStatesTerminal ==
  (/\ last.op \in Finalizers
   /\ last.pre.state \in {txCommitted, txRollbacked, txErred}
   /\ last.post.stateStack = last.pre.stateStack)
     => /\ last.post.state = last.pre.state
        /\ last.pre.state = txErred => last.call = "none"

\* C16: Commit or Rollback on a committed scope or after rollback returns
\* an error, does not end the process, issues nothing to the real
\* transaction and leaves state, stack and flag as they were.
C16_ProtocolErrorsAreReturned ==
  (last.op \in {"Commit", "Rollback"}
     /\ (last.pre.IsRollbacked \/ last.pre.state = txCommitted))
    => /\ last.err \in {"ErrTxRollbacked", "already commited",
                        "cannot rollback, already commited"}
       /\ last.call = "none"
       /\ last.post = last.pre
       /\ ~alive => watchdog = "panicked"

C16_Witness ==
  /\ Strict /\ alive
  /\ last.op = "Commit" /\ last.err = "already commited"
  /\ last.pre.stateStack = <<>> /\ realCommits = 1 /\ begins = 0

\* C17: in strict mode the watchdog does not raise the not-closed panic
\* once a real commit or rollback has succeeded.
C17_WatchdogQuietAfterFinalize ==
  watchdog = "panicked" => realOK = {}

\* C19: after a real rollback has succeeded no call issues a commit or a
\* rollback to the real transaction: Begin, Commit and Rollback return
\* ErrTxRollbacked, AutoCommit and AutoRollback return nil and only pop.
C19_NothingAfterRealRollback ==
  /\ [][("rollback" \in realOK)
          => (realCommits' = realCommits /\ realRollbacks' = realRollbacks)]_vars
  /\ []((Quiet /\ "rollback" \in realOK) => IsRollbacked)
  /\ []((last.pre.IsRollbacked /\ last.op \in Autos)
          => (last.err = "nil" /\ last.call = "none"
              /\ last.post = popState(last.pre)))
  /\ []((last.pre.IsRollbacked /\ last.op \in {"Begin", "Commit", "Rollback"})
          => (last.err = "ErrTxRollbacked" /\ last.call = "none"))

C19_Witness ==
  /\ "rollback" \in realOK /\ realRollbacks = 1
  /\ last.op = "AutoCommit" /\ last.pre.IsRollbacked
  /\ Len(last.pre.stateStack) >= 1 /\ last.pre.state = txPending

\* C20 (as stated): in every reachable state a current state of rolledback
\* implies the rollback flag, no entry of the state stack is rolledback,
\* and Commit never returns through its 'already rollbacked' branch.
C20_RolledbackImpliesFlag ==
  /\ state = txRollbacked => IsRollbacked
  /\ \A i \in 1..Len(stateStack) : stateStack[i] # txRollbacked
  /\ last.err # "already rollbacked"

\* C20 (amended): whenever no method holds the lock, a current state of
\* rolledback implies the rollback flag (inside Rollback and AutoRollback
\* the state is assigned one statement before the flag); in every state no
\* entry of the state stack is rolledback, and Commit never returns
\* through its 'already rollbacked' branch.
C20_RolledbackImpliesFlagBetweenCalls ==
  /\ (Quiet /\ state = txRollbacked) => IsRollbacked
  /\ \A i \in 1..Len(stateStack) : stateStack[i] # txRollbacked
  /\ last.err # "already rollbacked"
  /\ inflight.err # "already rollbacked"

C20_Witness ==
  /\ Quiet /\ state = txRollbacked /\ IsRollbacked /\ Len(stateStack) >= 1
  /\ last.op = "Commit" /\ last.err = "ErrTxRollbacked"

====
